---- MODULE Spec2Model ----
(***************************************************************************)
(* Model of the mobility-measure research workflow:                        *)
(*   - the 19 section nodes wired by create_mobility_graph                 *)
(*     (graphs/mobility_graph.py), each one calling                        *)
(*     BaseMobilityAgent.generate (agents/mobility/base.py);               *)
(*   - the fan-in node assembly_agent_node                                 *)
(*     (agents/mobility/assembly_agent.py) with validate_complete_measure  *)
(*     (schemas/validators.py);                                            *)
(*   - the caller research_mobility_measure (mobility_research.py);        *)
(*   - extract_json_from_text and safe_json_parse (utils/json_utils.py)    *)
(*     and safe_json_parse of schemas/validators.py, on their own, in      *)
(*     SpecText;                                                           *)
(*   - JsonFixerAgent.fix_json (agents/mobility/json_fixer.py), request by *)
(*     request, in SpecFix;                                                *)
(*   - BaseMobilityAgent.generate, request by request, in SpecGen.         *)
(*                                                                         *)
(* Python values are abstracted as follows.  A section result is "full"    *)
(* (a non-empty mapping, truthy) or "empty" ({}, falsy); a key that is not *)
(* in the domain of a mapping is absent.  Strings are sequences whose      *)
(* elements are single characters or fixed literal fragments.  A           *)
(* percentage with one decimal is an integer number of tenths.             *)
(***************************************************************************)
EXTENDS Integers, Sequences, FiniteSets, TLC

\* ------------------------------------------------------------------ bounds
\* Largest number of empty-or-absent sections in an input state handed
\* directly to assembly_agent_node (the all-empty input is always included).
MaxMissing == 3
\* Largest number of section keys that are absent (rather than {}) in such
\* an input state.
MaxAbsent == 1
\* Longest measure name, in characters.
MaxNameLen == 1
\* Number of executor threads that run section tasks at the same time.
MaxWorkers == 2
\* Longest text, in tokens, among the texts that are tried exhaustively.
MaxTextLen == 3

\* ------------------------------------------------------- section names
\* The keys of the `sections` dict of assembly_agent_node, in insertion order.
SectionOrder ==
  << "meta", "overview", "context", "evidence", "impact", "requirements",
     "infrastructure", "operations", "costs", "risks", "monitoring",
     "checklist", "lifecycle", "roles_responsibilities_detailed",
     "financial_model", "compliance", "visibility_and_communication_design",
     "selection_logic", "future_scalability" >>

Range(s) == { s[i] : i \in 1..Len(s) }

SectionNames == Range(SectionOrder)

\* The literal 19 of assembly_agent_node's completion computation.
ExpectedCount == 19

\* The state key assembly_agent_node reads for a document section.
ReadKey(name) == IF name = "context" THEN "context_data" ELSE name

\* The section keys declared by the MobilityResearchState schema.
SchemaSectionKeys ==
  { "meta", "overview", "context_data", "evidence", "impact", "requirements",
    "infrastructure", "operations", "costs", "risks", "monitoring",
    "checklist", "lifecycle", "roles_responsibilities_detailed",
    "financial_model", "compliance", "visibility_and_communication_design",
    "selection_logic", "future_scalability" }

\* required_sections of validate_complete_measure, in list order.
RequiredSections ==
  << "meta", "overview", "context", "evidence", "impact", "requirements",
     "infrastructure", "operations", "costs", "risks", "monitoring",
     "checklist", "lifecycle", "roles", "financial", "compliance",
     "visibility", "selection", "scalability" >>

\* ------------------------------------------------------- Python helpers
\* bool(x) of a section value.
Truthy(v) == v = "full"

\* dict.get(key, {}) on a mapping represented as a function.
DictGet(d, key) == IF key \in DOMAIN d THEN d[key] ELSE "empty"

\* str.lower() on one character of the model alphabet.
LowerChar(c) == IF c = "A" THEN "a" ELSE c

\* str.lower()
Lower(s) == [ i \in 1..Len(s) |-> LowerChar(s[i]) ]

\* str.replace(old, new) for single-character old and new: every occurrence.
Replace(s, old, new) == [ i \in 1..Len(s) |-> IF s[i] = old THEN new ELSE s[i] ]

\* As RoundTenths, but the quotient is cut off after the first decimal.
RoundTenths_Truncate(num, den) == (num * 1000) \div den

\* round(x, 1) of x = num / den * 100, as a number of tenths.  No quotient
\* with den = 19 lies halfway between two tenths, so round-half-even and
\* round-half-up agree.
RoundTenths(num, den) == (2 * num * 1000 + den) \div (2 * den)

\* ------------------------------------------------------------ assembly
NoName == << "<absent>" >>

\* state.get("measure_name", "unknown")
MeasureNameOf(name) == IF name = NoName THEN << "u", "n", "k", "n", "o", "w", "n" >> ELSE name

\* sections = { name: state.get(key, {}) ... }
CollectSections(state) == [ n \in SectionNames |-> DictGet(state, ReadKey(n)) ]

\* missing_sections = [name for name, data in sections.items() if not data]
MissingSections(sections) ==
  LET IsMissing(n) == ~ Truthy(sections[n])
  IN  SelectSeq(SectionOrder, IsMissing)

\* As MergedKeys, but an empty section gets no key.
MergedKeys_DropEmpty(sections) == { n \in DOMAIN sections : Truthy(sections[n]) }

\* The merge loop: every name of `sections` becomes a key of the document.
MergedKeys(sections) == DOMAIN sections

MergedValue(sections, n) == IF Truthy(sections[n]) THEN sections[n] ELSE "empty"

\* round((19 - len(missing_sections)) / 19 * 100, 1)
CompletionPercentage(missing) == RoundTenths(ExpectedCount - Len(missing), ExpectedCount)

\* validate_complete_measure(data): the list of errors.
RECURSIVE ValidationErrors(_, _)
ValidationErrors(doc, i) ==
  IF i > Len(RequiredSections) THEN << >>
  ELSE LET section == RequiredSections[i]
           here == IF section \notin DOMAIN doc
                     THEN << [kind |-> "missing_required", section |-> section] >>
                   ELSE IF ~ Truthy(doc[section])
                     THEN << [kind |-> "empty", section |-> section] >>
                   ELSE << >>
       IN  here \o ValidationErrors(doc, i + 1)

validate_complete_measure(doc) ==
  LET errs == ValidationErrors(doc, 1)
  IN  [is_valid |-> Len(errs) = 0, errors |-> errs]

\* The document built by assembly_agent_node before it is saved.  `body`
\* maps the section keys to their values, `meta_keys` is the set of keys of
\* the "_metadata" entry ({} when the entry does not exist); the fields
\* after it are the values of those keys and are meaningful only for the
\* keys in `meta_keys`.
BuildMeasure(state) ==
  LET sections == CollectSections(state)
      missing  == MissingSections(sections)
      body     == [ n \in MergedKeys(sections) |-> MergedValue(sections, n) ]
      v        == validate_complete_measure(body)
      keys1    == IF Len(missing) > 0
                    THEN { "incomplete", "missing_sections",
                           "completion_percentage", "generated_at" }
                    ELSE { }
      keys2    == IF v.is_valid THEN keys1 \cup { "is_valid" }
                  ELSE keys1 \cup { "validation_errors", "is_valid" }
  IN  [ body |-> body,
        has_metadata |-> TRUE,
        meta_keys |-> keys2,
        incomplete |-> Len(missing) > 0,
        missing_sections |-> missing,
        completion_percentage |-> CompletionPercentage(missing),
        validation_errors |-> IF v.is_valid THEN << >> ELSE v.errors,
        is_valid |-> v.is_valid ]

\* As SafeName, but "/" is kept.
SafeName_KeepSlash(name) == Replace(Lower(name), " ", "-")

\* safe_name = measure_name.lower().replace(" ", "-").replace("/", "-")
SafeName(name) == Replace(Replace(Lower(name), " ", "-"), "/", "-")

\* output_filename = f"{safe_name}-mobility-measure{suffix}.json"
OutputFilename(name, missing) ==
  SafeName(name) \o << "-mobility-measure" >>
                 \o (IF Len(missing) > 0 THEN << "-partial" >> ELSE << >>)
                 \o << ".json" >>

\* os.path.join("research_output", output_filename)
OutputPath(filename) == << "research_output", "/" >> \o filename

\* What the file system does during the persistence phase.
FsOutcomes == { "ok", "makedirs_fails", "open_fails", "dump_fails" }

NoRet == [ returned |-> FALSE ]

\* The value returned by assembly_agent_node, when it returns, for the
\* document doc it has built.  output_filename is its local variable.
AssemblyReturn(doc, name, fs) ==
  LET filename == OutputFilename(MeasureNameOf(name), doc.missing_sections)
  IN  IF fs = "ok"
        THEN [ returned |-> TRUE, complete_measure |-> doc,
               output_path |-> OutputPath(filename), output_filename |-> filename,
               errors |-> << >> ]
        ELSE [ returned |-> TRUE, complete_measure |-> doc,
               output_path |-> << >>, output_filename |-> filename,
               errors |-> << [kind |-> "save", section |-> "assembly"] >> ]

\* os.makedirs(output_dir, exist_ok=True) is called outside every try block.
AssemblyRaises(fs) == fs = "makedirs_fails"


\* ------------------------------------------------------------ json_utils
\* A text is a sequence of tokens.  A token is one character, or a fixed
\* fragment that never overlaps a marker the code searches for: Fence stands
\* for a run of three backticks (backticks occur in no other way), "json" is
\* the language tag, Quote stands for the double quote character,
\* " " a whitespace character, "1" a digit, and "k", "key1", "value1",
\* "key2", "value2" are words.  Backslashes and control characters do not
\* occur, so a JSON string is everything between two quotes.
Fence == "<fence>"

Quote == "<quote>"

Alphabet == { Fence, "json", " ", "{", "}", "[", "]", ":", ",", Quote, "k", "1" }

\* As Strip, but whitespace at the end is kept.
Strip_LeadingOnly(t) ==
  LET keep == { i \in 1..Len(t) : t[i] # " " }
  IN  IF keep = { } THEN << >>
      ELSE SubSeq(t, CHOOSE i \in keep : \A j \in keep : i <= j, Len(t))

\* str.strip()
Strip(t) ==
  LET keep == { i \in 1..Len(t) : t[i] # " " }
  IN  IF keep = { } THEN << >>
      ELSE SubSeq(t, CHOOSE i \in keep : \A j \in keep : i <= j,
                     CHOOSE i \in keep : \A j \in keep : i >= j)

\* pat occurs in t at position i (1-based).
OccursAt(t, pat, i) ==
  /\ i >= 1
  /\ i + Len(pat) - 1 <= Len(t)
  /\ \A j \in 1..Len(pat) : t[i + j - 1] = pat[j]

\* str.find(pat, start) as a 1-based position; 0 when pat does not occur at
\* or after position start.
Find(t, pat, start) ==
  LET hits == { i \in start..Len(t) : OccursAt(t, pat, i) }
  IN  IF hits = { } THEN 0 ELSE CHOOSE i \in hits : \A j \in hits : i <= j

\* str.rfind(pat) as a 1-based position; 0 when pat does not occur.
RFind(t, pat) ==
  LET hits == { i \in 1..Len(t) : OccursAt(t, pat, i) }
  IN  IF hits = { } THEN 0 ELSE CHOOSE i \in hits : \A j \in hits : i >= j

\* pat in t
Contains(t, pat) == Find(t, pat, 1) # 0

\* text[start:end].strip() for the fence that opens at position open and is
\* Len(marker) tokens long; the text itself when no closing fence follows.
FencedContent(t, marker) ==
  LET start == Find(t, marker, 1) + Len(marker)
      end   == Find(t, << Fence >>, start)
  IN  IF end # 0 THEN Strip(SubSeq(t, start, end - 1)) ELSE t

\* As BraceSlice, but up to the first "}".
BraceSlice_FirstClose(t) ==
  IF Contains(t, << "{" >>) /\ Contains(t, << "}" >>)
    THEN SubSeq(t, Find(t, << "{" >>, 1), Find(t, << "}" >>, 1))
  ELSE t

\* text[text.find("{"):text.rfind("}") + 1] when both braces occur.
BraceSlice(t) ==
  IF Contains(t, << "{" >>) /\ Contains(t, << "}" >>)
    THEN SubSeq(t, Find(t, << "{" >>, 1), RFind(t, << "}" >>))
  ELSE t

\* extract_json_from_text(text)
extract_json_from_text(text) ==
  LET t0 == Strip(text)
      t1 == IF Contains(t0, << Fence, "json" >>)
              THEN FencedContent(t0, << Fence, "json" >>)
            ELSE IF Contains(t0, << Fence >>)
              THEN FencedContent(t0, << Fence >>)
            ELSE t0
  IN  Strip(BraceSlice(t1))

\* ---- json.loads
\* The position of the first token at or after i that is not whitespace.
SkipWs(t, i) ==
  LET rest == { j \in i..Len(t) : t[j] # " " }
  IN  IF rest = { } THEN Len(t) + 1 ELSE CHOOSE j \in rest : \A k \in rest : j <= k

At(t, i) == IF i >= 1 /\ i <= Len(t) THEN t[i] ELSE "<eof>"

ScanFail == [ ok |-> FALSE, next |-> 0, keys |-> << >>, vals |-> << >> ]

ScanOk(n) == [ ok |-> TRUE, next |-> n, keys |-> << >>, vals |-> << >> ]

\* A string that opens at position i: it ends at the next quote.
ScanString(t, i) ==
  LET close == Find(t, << Quote >>, i + 1)
  IN  IF close = 0 THEN ScanFail ELSE ScanOk(close + 1)

\* A number that starts at position i: the run of digits.
ScanNumber(t, i) ==
  LET stop == { j \in i..Len(t) : t[j] # "1" }
  IN  ScanOk(IF stop = { } THEN Len(t) + 1 ELSE CHOOSE j \in stop : \A k \in stop : j <= k)

\* Whitespace outside strings removed: the form in which a value is kept.
RECURSIVE Compact(_, _, _)
Compact(t, i, inString) ==
  IF i > Len(t) THEN << >>
  ELSE IF t[i] = Quote THEN << t[i] >> \o Compact(t, i + 1, ~ inString)
  ELSE IF t[i] = " " /\ ~ inString THEN Compact(t, i + 1, inString)
  ELSE << t[i] >> \o Compact(t, i + 1, inString)

RECURSIVE ScanValue(_, _)
RECURSIVE ScanMembers(_, _)
RECURSIVE ScanElements(_, _)
\* scan_once(s, idx): the value that starts at position i.  For an object,
\* keys and vals list its members in the order of the text.
ScanValue(t, i) ==
  CASE At(t, i) = Quote -> ScanString(t, i)
    [] At(t, i) = "1"   -> ScanNumber(t, i)
    [] At(t, i) = "{"   ->
         LET j == SkipWs(t, i + 1)
         IN  IF At(t, j) = "}" THEN ScanOk(j + 1)
             ELSE IF At(t, j) # Quote THEN ScanFail
             ELSE ScanMembers(t, j)
    [] At(t, i) = "["   ->
         LET j == SkipWs(t, i + 1)
         IN  IF At(t, j) = "]" THEN ScanOk(j + 1)
             ELSE ScanElements(t, j)
    [] OTHER -> ScanFail

\* JSONObject from the key at position i on.
ScanMembers(t, i) ==
  LET k == ScanString(t, i)
  IN  IF ~ k.ok THEN ScanFail
      ELSE LET c == SkipWs(t, k.next)
           IN  IF At(t, c) # ":" THEN ScanFail
               ELSE LET vStart == SkipWs(t, c + 1)
                        v      == ScanValue(t, vStart)
                    IN  IF ~ v.ok THEN ScanFail
                        ELSE LET e    == SkipWs(t, v.next)
                                 key  == SubSeq(t, i + 1, k.next - 2)
                                 val  == Compact(SubSeq(t, vStart, v.next - 1), 1, FALSE)
                             IN  IF At(t, e) = "}"
                                   THEN [ ok |-> TRUE, next |-> e + 1,
                                          keys |-> << key >>, vals |-> << val >> ]
                                 ELSE IF At(t, e) # "," THEN ScanFail
                                 ELSE LET n == SkipWs(t, e + 1)
                                      IN  IF At(t, n) # Quote THEN ScanFail
                                          ELSE LET more == ScanMembers(t, n)
                                               IN  IF ~ more.ok THEN ScanFail
                                                   ELSE [ ok |-> TRUE, next |-> more.next,
                                                          keys |-> << key >> \o more.keys,
                                                          vals |-> << val >> \o more.vals ]

\* JSONArray from the element at position i on.
ScanElements(t, i) ==
  LET v == ScanValue(t, i)
  IN  IF ~ v.ok THEN ScanFail
      ELSE LET e == SkipWs(t, v.next)
           IN  IF At(t, e) = "]" THEN ScanOk(e + 1)
               ELSE IF At(t, e) # "," THEN ScanFail
               ELSE ScanElements(t, SkipWs(t, e + 1))

\* The dict of an object: a later member replaces an earlier one with the
\* same key.
MappingOf(keys, vals) ==
  [ k \in Range(keys) |->
      vals[CHOOSE i \in 1..Len(keys) : keys[i] = k /\ \A j \in 1..Len(keys) : keys[j] = k => j <= i] ]

EmptyMapping == << >>

\* json.loads(s): JSONDecodeError, or the kind of the top-level value and,
\* for an object, its dict.
JsonLoads(s) ==
  LET start == SkipWs(s, 1)
      v     == ScanValue(s, start)
  IN  IF ~ v.ok \/ SkipWs(s, v.next) # Len(s) + 1
        THEN [ exc |-> "JSONDecodeError", isDict |-> FALSE, dict |-> EmptyMapping ]
      ELSE IF At(s, start) = "{"
        THEN [ exc |-> "none", isDict |-> TRUE, dict |-> MappingOf(v.keys, v.vals) ]
      ELSE [ exc |-> "none", isDict |-> FALSE, dict |-> EmptyMapping ]

NoErrorText == << >>

\* The exceptions the handlers of safe_json_parse catch.
HandledExceptions == { "JSONDecodeError", "Exception" }

\* safe_json_parse(text) of utils.json_utils: the pair it returns, or the
\* fact that an exception leaves it.
safe_json_parse(text) ==
  LET cleaned == extract_json_from_text(text)
      parsed  == JsonLoads(cleaned)
  IN  IF parsed.exc # "none"
        THEN IF parsed.exc \in HandledExceptions
               THEN [ raised |-> FALSE, m |-> EmptyMapping,
                      e |-> << "JSON parsing error at position ", "<pos>", ": ", "<msg>" >> ]
             ELSE [ raised |-> TRUE, m |-> EmptyMapping, e |-> NoErrorText ]
      ELSE IF ~ parsed.isDict
        THEN [ raised |-> FALSE, m |-> EmptyMapping,
               e |-> << "Parsed JSON is not a dictionary" >> ]
      ELSE [ raised |-> FALSE, m |-> parsed.dict, e |-> NoErrorText ]

\* ---- schemas.validators
\* str.startswith(pat)
StartsWith(t, pat) == OccursAt(t, pat, 1)

\* str.endswith(pat)
EndsWith(t, pat) == OccursAt(t, pat, Len(t) - Len(pat) + 1)

\* clean_json_output(text) of schemas.validators: a fence at the very start
\* and a fence at the very end are cut off.
clean_json_output(text) ==
  LET t0 == Strip(text)
      t1 == IF StartsWith(t0, << Fence, "json" >>) THEN SubSeq(t0, 3, Len(t0))
            ELSE IF StartsWith(t0, << Fence >>) THEN SubSeq(t0, 2, Len(t0))
            ELSE t0
      t2 == IF EndsWith(t1, << Fence >>) THEN SubSeq(t1, 1, Len(t1) - 1) ELSE t1
  IN  Strip(t2)

\* A parsed value that is a list, a string or a number.
NotAMapping(s) == [ value |-> Compact(s, 1, FALSE) ]

\* safe_json_parse(text) of schemas.validators: what json.loads gives is
\* returned as it is, whatever its type.
validators_safe_json_parse(text) ==
  LET cleaned == clean_json_output(text)
      parsed  == JsonLoads(cleaned)
  IN  IF parsed.exc # "none"
        THEN IF parsed.exc \in HandledExceptions
               THEN [ raised |-> FALSE, isDict |-> TRUE, m |-> EmptyMapping,
                      e |-> << "JSON parsing error: ", "<msg>" >> ]
             ELSE [ raised |-> TRUE, isDict |-> TRUE, m |-> EmptyMapping,
                    e |-> NoErrorText ]
      ELSE IF parsed.isDict
        THEN [ raised |-> FALSE, isDict |-> TRUE, m |-> parsed.dict, e |-> NoErrorText ]
      ELSE [ raised |-> FALSE, isDict |-> FALSE, m |-> NotAMapping(cleaned),
             e |-> NoErrorText ]

\* ------------------------------------------------------------- generate
\* What a model backend does with one request.
Replies ==
  { "valid",                 \* text that parses to a non-empty mapping
    "valid_empty",           \* text that parses to {}
    "unparseable",           \* text that fails json.loads or is not a mapping
    "rate_limit_hint",       \* exception "429 ... try again in 1.2s"
    "rate_limit_hint_ms",    \* exception "429 ... try again in 500ms"
    "rate_limit_hint_long",  \* exception "429 ... try again in 12s"
    "rate_limit_hint_huge",  \* exception "429 ... try again in 20s"
    "rate_limit_bad_hint",   \* exception "429 ... try again in 1.2.3s"
    "rate_limit_no_hint",    \* exception "429 ..." without a wait time
    "exception" }            \* any other exception

\* One behaviour of the backends during one call of generate.
Behaviours == [ first : Replies, retry : Replies, fallback : Replies ]

\* The exceptions whose text holds "try again in <number><unit>" with a
\* number float() accepts.
HintKinds ==
  { "rate_limit_hint", "rate_limit_hint_ms", "rate_limit_hint_long",
    "rate_limit_hint_huge" }

IsException(r) ==
  r \in HintKinds \cup { "rate_limit_bad_hint", "rate_limit_no_hint", "exception" }

\* As IsRateLimit, but every exception counts as a rate-limit failure.
IsRateLimit_AnyException(r) == IsException(r)

\* "429" in error_str or "rate_limit" in error_str.lower()
IsRateLimit(r) == r \in HintKinds \cup { "rate_limit_bad_hint", "rate_limit_no_hint" }

\* re.search(r'try again in ([\d.]+)([ms])', error_str) finds a match.
HasWaitMatch(r) == r \in HintKinds \cup { "rate_limit_bad_hint" }

\* float(wait_match.group(1)) raises ValueError.
WaitValueRaises(r) == r = "rate_limit_bad_hint"

NoError == "None"

GenReturn(result, error) == [ raised |-> FALSE, result |-> result, error |-> error ]

GenRaise == [ raised |-> TRUE, result |-> "empty", error |-> NoError ]

\* extract_json_from_text + safe_json_parse on a response that was returned.
ParsedResult(r) == IF r = "valid" THEN "full" ELSE "empty"

ParseError(r) == r = "unparseable"

\* The fallback-model block of generate (lines 135-163).
GenerateFallback(b) ==
  IF IsException(b.fallback) THEN GenReturn("empty", "fallback_error")
  ELSE IF ParseError(b.fallback) THEN GenReturn("empty", "parse_error_fallback")
  ELSE GenReturn(ParsedResult(b.fallback), NoError)

\* BaseMobilityAgent.generate: the pair it returns, or the fact that it raises.
generate(b) ==
  IF ~ IsException(b.first)
    THEN IF ParseError(b.first) THEN GenReturn("empty", "parse_error")
         ELSE GenReturn(ParsedResult(b.first), NoError)
  ELSE IF IsRateLimit(b.first)
    THEN IF HasWaitMatch(b.first)
           THEN IF WaitValueRaises(b.first) THEN GenRaise
                ELSE IF ~ IsException(b.retry) /\ ~ ParseError(b.retry)
                       THEN GenReturn(ParsedResult(b.retry), NoError)
                     ELSE GenerateFallback(b)
         ELSE GenerateFallback(b)
  ELSE GenReturn("empty", "generation_error")

\* ---------------------------------------------------------- section nodes
\* agent_names of create_mobility_graph.
AgentNames ==
  << "meta_agent", "overview_agent", "context_agent", "evidence_agent",
     "impact_agent", "requirements_agent", "infrastructure_agent",
     "operations_agent", "costs_agent", "risks_agent", "monitoring_agent",
     "checklist_agent", "lifecycle_agent", "roles_agent", "financial_agent",
     "compliance_agent", "visibility_agent", "selection_agent",
     "scalability_agent" >>

Agents == Range(AgentNames)

\* The section_name each agent class passes to BaseMobilityAgent.__init__,
\* in the order of AgentNames.
AgentSectionNames ==
  << "meta", "overview", "context", "evidence", "impact", "requirements",
     "infrastructure", "operations", "costs", "risks", "monitoring",
     "checklist", "lifecycle", "roles", "financial", "compliance",
     "visibility", "selection", "scalability" >>

AgentIndex(a) == CHOOSE i \in 1..Len(AgentNames) : AgentNames[i] = a

SectionNameOf(a) == AgentSectionNames[AgentIndex(a)]

\* As WriteKey, but every node writes the key named as its section.
WriteKey_SectionName(a) == SectionNameOf(a)

\* The section key of the dict returned by the node function of agent a.
WriteKey(a) == IF a = "context_agent" THEN "context_data" ELSE SectionNameOf(a)

\* Positional parameters of BaseMobilityAgent.__init__ after self.
BaseInitParams == 2

\* Positional arguments the agent class passes to super().__init__.
InitArgs(a) == IF a = "meta_agent" THEN 3 ELSE 2

\* Constructing the agent raises TypeError.
AgentInitRaises(a) == InitArgs(a) > BaseInitParams

NoUpdate == [ key |-> "none", value |-> "empty", errors |-> << >> ]

\* The dict returned by a node function for the outcome g of generate.
NodeUpdate(a, g) ==
  IF g.error # NoError
    THEN [ key |-> WriteKey(a), value |-> "empty",
           errors |-> << [kind |-> g.error, section |-> SectionNameOf(a)] >> ]
    ELSE [ key |-> WriteKey(a), value |-> g.result, errors |-> << >> ]

\* Every outcome generate can have, over the behaviours of the backends.
GenerateOutcomes == { generate(b) : b \in Behaviours }

\* One call of a node function in which agent.generate has the outcome g:
\* raised, or returned with an update.  The image lookup of meta_agent_node
\* replaces result["images"] and leaves the result a non-empty mapping
\* whatever the image service does.
RunNode(a, g) ==
  IF AgentInitRaises(a) THEN [ status |-> "raised", update |-> NoUpdate ]
  ELSE IF g.raised THEN [ status |-> "raised", update |-> NoUpdate ]
  ELSE [ status |-> "returned", update |-> NodeUpdate(a, g) ]


\* ---------------------------------------------------------------- state
VARIABLES
  entry,         \* "invoke": research_mobility_measure runs the graph;
                 \* "node": assembly_agent_node is called on a given state
  pc,            \* "superstep", "assembly", "end" or "raised"
  measure_name,  \* state["measure_name"], or NoName when the key is absent
  st,            \* the section keys of the state and their values
  errors,        \* state["errors"]
  task,          \* per agent: the status of its task and the dict it returned
  submitted,     \* number of tasks of agent_names handed to a thread so far
  ret,           \* what assembly_agent_node returned
  asm_runs,      \* number of calls of assembly_agent_node
  fs_outcome,    \* what the file system did during the last such call
  txt,           \* the text handed to the functions of utils.json_utils
  tres,          \* what those functions returned for it
  fx,            \* one call of JsonFixerAgent.fix_json
  gn             \* one call of BaseMobilityAgent.generate

\* The variables of a run of the graph or of the assembly node.
graph_vars == << entry, pc, measure_name, st, errors, task, submitted, ret,
                 asm_runs, fs_outcome >>

\* The variables of the calls of the functions that are checked on their own.
unit_vars == << txt, tres, fx, gn >>

vars == << entry, pc, measure_name, st, errors, task, submitted, ret,
           asm_runs, fs_outcome, txt, tres, fx, gn >>

\* --------------------------------------------------------------- inputs
NameChars == { "A", " ", "/" }

RECURSIVE SeqsUpTo(_, _)
SeqsUpTo(S, n) ==
  IF n = 0 THEN { << >> }
  ELSE LET shorter == SeqsUpTo(S, n - 1)
       IN  shorter \cup { Append(q, c) : q \in shorter, c \in S }

MeasureNames == SeqsUpTo(NameChars, MaxNameLen)

\* The measure names given to research_mobility_measure.
InvokeNames == { << "A", " " >>, << "/" >> }

RECURSIVE SubsetsUpTo(_, _)
SubsetsUpTo(S, n) ==
  IF n = 0 THEN { { } }
  ELSE LET smaller == SubsetsUpTo(S, n - 1)
       IN  smaller \cup { p \cup { x } : p \in smaller, x \in S }

\* A state whose sections in `missing` are {} or, for those in `absent`,
\* not keys of the state at all, and whose other sections are non-empty.
InputState(missing, absent) ==
  [ k \in SchemaSectionKeys \ { ReadKey(n) : n \in absent } |->
      IF k \in { ReadKey(n) : n \in missing } THEN "empty" ELSE "full" ]

\* The sets of empty-or-absent sections of the input states.
MissingSets == SubsetsUpTo(SectionNames, MaxMissing) \cup { SectionNames }

\* The sets of missing sections with which every measure name is tried.
NamedMissingSets == { { }, { "context" }, { "meta" } }

\* The measure name with which every set of MissingSets is tried.
SampleName == << "A" >>

\* The measure names tried with the set m of missing sections.  The file
\* name depends on the sections only through the emptiness of
\* missing_sections, and the document does not depend on the measure name.
NamesFor(m) ==
  IF m \in NamedMissingSets THEN MeasureNames \cup { NoName, SampleName }
  ELSE { SampleName }

\* The agents whose requests the backends may answer with anything; the
\* requests of the other agents get a valid non-empty reply.
FlakyAgents == { "overview_agent", "roles_agent" }

\* The outcomes generate can have in the node function of agent a.
OutcomesFor(a) ==
  IF a \in FlakyAgents THEN GenerateOutcomes
  ELSE { generate([ first |-> "valid", retry |-> "valid", fallback |-> "valid" ]) }

\* The section keys of initial_state in research_mobility_measure.
InitialStateKeys ==
  { "meta", "overview", "context_data", "evidence", "impact", "requirements",
    "infrastructure", "operations", "costs", "risks", "monitoring",
    "checklist", "lifecycle", "roles", "financial", "compliance",
    "visibility", "selection", "scalability" }

\* The graph keeps the keys of its input that the state schema declares.
InitialState == [ k \in InitialStateKeys \cap SchemaSectionKeys |-> "empty" ]

IdleTask == [ status |-> "pending", update |-> NoUpdate ]

\* No text has been handed to the functions of utils.json_utils.
NoText == [ shape |-> "none", text |-> << >>, pre |-> << >>, open |-> << >>,
            pad |-> << >>, body |-> << >>, post |-> << >> ]

NoTextResult == [ stage |-> "none" ]

\* fix_json and generate have not been called.
NoCall == [ pc |-> "none" ]

UnitsIdle ==
  /\ txt = NoText
  /\ tres = NoTextResult
  /\ fx = NoCall
  /\ gn = NoCall

\* research_mobility_measure(measure_name, context) at mobility_graph.invoke.
InitInvoke ==
  /\ entry = "invoke"
  /\ pc = "superstep"
  /\ measure_name \in InvokeNames
  /\ st = InitialState
  /\ errors = << >>
  /\ task = [ a \in Agents |-> IdleTask ]
  /\ submitted = 0
  /\ ret = NoRet
  /\ asm_runs = 0
  /\ fs_outcome = "none"

\* assembly_agent_node(state) about to run on an arbitrary state.
InitNode ==
  /\ entry = "node"
  /\ pc = "assembly"
  /\ \E m \in MissingSets :
       /\ measure_name \in NamesFor(m)
       /\ \E a \in SubsetsUpTo(m, MaxAbsent) : st = InputState(m, a)
  /\ errors = << >>
  /\ task = [ a \in Agents |-> IdleTask ]
  /\ submitted = 0
  /\ ret = NoRet
  /\ asm_runs = 0
  /\ fs_outcome = "none"

Init == (InitInvoke \/ InitNode) /\ UnitsIdle

\* ------------------------------------------------------------- superstep
Running == { a \in Agents : task[a].status = "running" }

Failed == \E a \in Agents : task[a].status = "raised"

\* A task whose generator did not return a non-empty mapping.
IsFlaky(t) == t.status = "returned" /\ (t.update.value # "full" \/ t.update.errors # << >>)

\* The executor hands the next task of agent_names to a free thread; once a
\* task has raised, the tasks not yet started are cancelled.
StartTask ==
  /\ pc = "superstep"
  /\ ~ Failed
  /\ submitted < Len(AgentNames)
  /\ Cardinality(Running) < MaxWorkers
  /\ task' = [ task EXCEPT ![AgentNames[submitted + 1]].status = "running" ]
  /\ submitted' = submitted + 1
  /\ UNCHANGED << entry, pc, measure_name, st, errors, ret, asm_runs, fs_outcome >>
  /\ UNCHANGED unit_vars

\* The node function of agent a runs to its end.
FinishTask(a) ==
  /\ pc = "superstep"
  /\ task[a].status = "running"
  /\ \E g \in OutcomesFor(a) :
       task' = [ task EXCEPT ![a] = RunNode(a, g) ]
  /\ UNCHANGED << entry, pc, measure_name, st, errors, submitted, ret,
                  asm_runs, fs_outcome >>
  /\ UNCHANGED unit_vars

\* The writes of the tasks, applied in task order.  A key the schema does not
\* declare has no channel and its value is dropped; "errors" is reduced with
\* operator.add.
RECURSIVE ApplyWrites(_, _)
ApplyWrites(state, i) ==
  IF i > Len(AgentNames) THEN state
  ELSE LET u == task[AgentNames[i]].update
           written == IF u.key \in SchemaSectionKeys
                        THEN [ k \in DOMAIN state \cup { u.key } |->
                                 IF k = u.key THEN u.value ELSE state[k] ]
                        ELSE state
       IN  ApplyWrites(written, i + 1)

RECURSIVE CollectErrors(_)
CollectErrors(i) ==
  IF i > Len(AgentNames) THEN << >>
  ELSE task[AgentNames[i]].update.errors \o CollectErrors(i + 1)

\* The end of the superstep of the 19 section tasks: when a task raised, the
\* exception leaves mobility_graph.invoke and no write is applied; otherwise
\* every write is applied and the assembly node is scheduled.
EndSuperstep ==
  /\ pc = "superstep"
  /\ Running = { }
  /\ Failed \/ submitted = Len(AgentNames)
  /\ IF Failed
       THEN /\ pc' = "raised"
            /\ UNCHANGED << st, errors >>
       ELSE /\ pc' = "assembly"
            /\ st' = ApplyWrites(st, 1)
            /\ errors' = errors \o CollectErrors(1)
  /\ UNCHANGED << entry, measure_name, task, submitted, ret, asm_runs, fs_outcome >>
  /\ UNCHANGED unit_vars

\* assembly_agent_node(state); under the graph its "errors" are added to the
\* errors of the state.
Assembly ==
  /\ pc = "assembly"
  /\ asm_runs' = asm_runs + 1
  /\ LET doc == BuildMeasure(st)
     IN  \E fs \in FsOutcomes :
           /\ fs_outcome' = fs
           /\ IF AssemblyRaises(fs)
                THEN /\ pc' = "raised"
                     /\ UNCHANGED << ret, errors >>
                ELSE /\ pc' = "end"
                     /\ ret' = AssemblyReturn(doc, measure_name, fs)
                     /\ errors' = IF entry = "invoke" THEN errors \o ret'.errors
                                   ELSE errors
  /\ UNCHANGED << entry, measure_name, st, task, submitted >>
  /\ UNCHANGED unit_vars

Next ==
  \/ StartTask
  \/ \E a \in Agents : FinishTask(a)
  \/ EndSuperstep
  \/ Assembly

Spec == Init /\ [][Next]_vars

TypeOK ==
  /\ entry \in { "invoke", "node" }
  /\ pc \in { "superstep", "assembly", "end", "raised" }
  /\ submitted \in 0..Len(AgentNames)
  /\ asm_runs \in 0..1
  /\ fs_outcome \in FsOutcomes \cup { "none" }


\* ----------------------------------------------- calls of utils.json_utils
\* Nothing of the graph runs while a function is called on its own.
GraphIdle ==
  /\ entry = "none"
  /\ pc = "idle"
  /\ measure_name = NoName
  /\ st = InitialState
  /\ errors = << >>
  /\ task = [ a \in Agents |-> IdleTask ]
  /\ submitted = 0
  /\ ret = NoRet
  /\ asm_runs = 0
  /\ fs_outcome = "none"

\* Every text of at most MaxTextLen tokens.
RawTexts == SeqsUpTo(Alphabet, MaxTextLen)

\* Candidate JSON texts: objects, other values and broken texts.
Payloads ==
  { << "{", "}" >>,
    << "{", Quote, "k", Quote, ":", "1", "}" >>,
    << "{", " ", Quote, "k", Quote, " ", ":", " ", "1", " ", "}" >>,
    << "{", Quote, "k", Quote, ":", Quote, "k", " ", "k", Quote, "}" >>,
    << "{", Quote, "k", Quote, ":", "1", ",", Quote, "k", Quote, ":", "1", "1", "}" >>,
    << "{", Quote, "k", Quote, ":", "{", Quote, "k", Quote, ":", "1", "}", "}" >>,
    << "{", Quote, "k", Quote, ":", "[", "1", ",", "1", "]", "}" >>,
    << "{", Quote, "k", Quote, ":", Quote, "}", Quote, "}" >>,
    << "{", Quote, "k", Quote, ":", Quote, Fence, Quote, "}" >>,
    << "{", Quote, "k", Quote, ":", Quote, Fence, Quote, ",",
            Quote, "1", Quote, ":", Quote, Fence, Quote, "}" >>,
    << "[", "{", Quote, "k", Quote, ":", "1", "}", "]" >>,
    << "[", "1", "]" >>,
    << "1" >>,
    << Quote, "k", Quote >>,
    << "{", Quote, "k", Quote, ":", "1", ",", "}" >>,
    << "{", "k", ":", "1", "}" >>,
    << "{", Quote, "k", Quote, " ", "1", "}" >>,
    << "k" >> }

\* Prose around a candidate: none, words, and words with braces.
Prose ==
  { << >>, << "k", " " >>, << " ", "k" >>, << "k", "{", "k", "}", " " >> }

\* The marker that opens a fenced block; << >> when the candidate is bare.
OpenFences == { << >>, << Fence >>, << Fence, "json" >> }

Pads == { << >>, << " " >> }

\* Prose, then the candidate, bare or in a fenced block, then prose.
Compose(pre, open, pad, body, post) ==
  IF open = << >> THEN pre \o pad \o body \o pad \o post
  ELSE pre \o open \o pad \o body \o pad \o << Fence >> \o post

\* The contents of the fenced blocks of a text with two of them.
BlockBodies ==
  { << "{", Quote, "k", Quote, ":", "1", "}" >>, << "{", "}" >>, << "k" >> }

\* What follows the first fenced block in a text with a second one: prose,
\* the marker that opens the second block, its content, its closing fence
\* unless the block is left open, and prose.
SecondBlocks(closed) ==
  { mid \o open \o body \o (IF closed THEN << Fence >> ELSE << >>) \o tail :
      mid \in Prose, open \in OpenFences \ { << >> }, body \in BlockBodies,
      tail \in { << >>, << " ", "k" >> } }

NotCalled == [ raised |-> FALSE, m |-> EmptyMapping, e |-> << "<not called>" >> ]

\* Words and a marker that opens a block which is never closed.
DanglingMarker == << " ", "k", " ", Fence, "json" >>

NotCalledOther ==
  [ raised |-> FALSE, isDict |-> TRUE, m |-> EmptyMapping, e |-> << "<not called>" >> ]

InitText ==
  /\ GraphIdle
  /\ \/ \E t \in RawTexts :
          txt = [ shape |-> "raw", text |-> t, pre |-> << >>, open |-> << >>,
                  pad |-> << >>, body |-> t, post |-> << >> ]
     \/ \E pre \in Prose, open \in OpenFences, pad \in Pads, body \in Payloads,
           post \in Prose :
          txt = [ shape |-> IF open = << >> THEN "bare" ELSE "fenced",
                  text |-> Compose(pre, open, pad, body, post),
                  pre |-> pre, open |-> open, pad |-> pad, body |-> body,
                  post |-> post ]
     \/ \E pre \in { << >>, << "k", "{", "k", "}", " " >> },
           open \in OpenFences \ { << >> }, body \in BlockBodies,
           closed \in BOOLEAN :
          \E rest \in SecondBlocks(closed) :
            txt = [ shape |-> IF closed THEN "blocks" ELSE "open_block",
                    text |-> Compose(pre, open, << >>, body, rest),
                    pre |-> pre, open |-> open, pad |-> << >>, body |-> body,
                    post |-> rest ]
     \/ \E body \in Payloads :
          txt = [ shape |-> "dangling",
                  text |-> Compose(<< >>, << >>, << >>, body, DanglingMarker),
                  pre |-> << >>, open |-> << >>, pad |-> << >>, body |-> body,
                  post |-> DanglingMarker ]
  /\ tres = [ stage |-> "input", extracted |-> << >>, chained |-> NotCalled,
              direct |-> NotCalled, clean |-> NotCalled, other |-> NotCalledOther ]
  /\ fx = NoCall
  /\ gn = NoCall

\* json_text = extract_json_from_text(text)
ExtractText ==
  /\ tres.stage = "input"
  /\ tres' = [ tres EXCEPT !.stage = "extracted",
                           !.extracted = extract_json_from_text(txt.text) ]
  /\ UNCHANGED << txt, fx, gn >>
  /\ UNCHANGED graph_vars

\* result, parse_error = safe_json_parse(json_text), as generate and fix_json
\* call it on the extracted text.
ParseExtracted ==
  /\ tres.stage = "extracted"
  /\ tres' = [ tres EXCEPT !.stage = "chained",
                           !.chained = safe_json_parse(tres.extracted) ]
  /\ UNCHANGED << txt, fx, gn >>
  /\ UNCHANGED graph_vars

\* safe_json_parse(text) on the text itself.
ParseText ==
  /\ tres.stage = "chained"
  /\ tres' = [ tres EXCEPT !.stage = "direct",
                           !.direct = safe_json_parse(txt.text) ]
  /\ UNCHANGED << txt, fx, gn >>
  /\ UNCHANGED graph_vars

\* safe_json_parse(s) on the candidate without prose and fence.
ParseBody ==
  /\ tres.stage = "direct"
  /\ tres' = [ tres EXCEPT !.stage = "done",
                           !.clean = safe_json_parse(txt.body) ]
  /\ UNCHANGED << txt, fx, gn >>
  /\ UNCHANGED graph_vars

\* safe_json_parse(text) of schemas.validators on the text itself.
ParseOther ==
  /\ tres.stage = "done"
  /\ tres' = [ tres EXCEPT !.stage = "compared",
                           !.other = validators_safe_json_parse(txt.text) ]
  /\ UNCHANGED << txt, fx, gn >>
  /\ UNCHANGED graph_vars

NextText == ExtractText \/ ParseExtracted \/ ParseText \/ ParseBody \/ ParseOther

SpecText == InitText /\ [][NextText]_vars


\* ------------------------------------------------ JsonFixerAgent.fix_json
\* max_retries of fix_json.
max_retries == 3

\* The broken_json arguments of tests/test_fixer.py and the JSON object each
\* of them is a corruption of.
FixCases == { "missing_comma", "unquoted_key", "trailing_comma" }

BrokenJson(c) ==
  CASE c = "missing_comma" ->
         << "{", Quote, "key1", Quote, ":", " ", Quote, "value1", Quote, " ",
                 Quote, "key2", Quote, ":", " ", Quote, "value2", Quote, "}" >>
    [] c = "unquoted_key" ->
         << "{", "key1", ":", " ", Quote, "value1", Quote, ",", " ",
                 "key2", ":", " ", Quote, "value2", Quote, "}" >>
    [] c = "trailing_comma" ->
         << "{", Quote, "key1", Quote, ":", " ", Quote, "value1", Quote, ",", "}" >>

CorrectedJson(c) ==
  IF c = "trailing_comma"
    THEN << "{", Quote, "key1", Quote, ":", " ", Quote, "value1", Quote, "}" >>
  ELSE << "{", Quote, "key1", Quote, ":", " ", Quote, "value1", Quote, ",", " ",
               Quote, "key2", Quote, ":", " ", Quote, "value2", Quote, "}" >>

\* The exceptions a request to a model backend can raise, by kind.
ExceptionKinds ==
  HintKinds \cup { "rate_limit_bad_hint", "rate_limit_no_hint", "exception" }

\* str(e) of an exception of each kind.
ExcText(r) ==
  CASE r = "rate_limit_hint"      -> << "429 ", "try again in ", "1.2", "s" >>
    [] r = "rate_limit_hint_ms"   -> << "429 ", "try again in ", "500", "m", "s" >>
    [] r = "rate_limit_hint_long" -> << "429 ", "try again in ", "12", "s" >>
    [] r = "rate_limit_hint_huge" -> << "429 ", "try again in ", "20", "s" >>
    [] r = "rate_limit_bad_hint"  -> << "429 ", "try again in ", "1.2.3", "s" >>
    [] r = "rate_limit_no_hint"   -> << "429 ", "Too Many Requests" >>
    [] OTHER                      -> << "connection reset" >>

\* wait_value if the unit is "s", wait_value / 1000 if it is "m": the wait
\* the error text suggests, in milliseconds.
HintMs(r) ==
  CASE r = "rate_limit_hint_ms"   -> 500
    [] r = "rate_limit_hint_long" -> 12000
    [] r = "rate_limit_hint_huge" -> 20000
    [] OTHER                      -> 1200

\* What the model can answer to the repair prompt of case c: the corrected
\* object, bare or fenced, with or without prose; the broken text again; an
\* empty object; words only; or an exception.
FixReplies(c) ==
  { [ kind |-> "text", text |-> Compose(pre, open, pad, CorrectedJson(c), post) ] :
      pre \in Prose, open \in OpenFences, pad \in Pads, post \in Prose }
  \cup { [ kind |-> "text", text |-> t ] :
           t \in { BrokenJson(c), << "{", "}" >>, << "k", " ", "k" >> } }
  \cup { [ kind |-> k, text |-> ExcText(k) ] : k \in ExceptionKinds }

NoReply == [ kind |-> "none", text |-> << >> ]

\* The value None of an error.
NoneError == << "<None>" >>

NoFixReturn == [ m |-> EmptyMapping, e |-> << "<not returned>" >> ]

\* As BackoffMs, but the same wait before every retry.
BackoffMs_Constant(attempt) == 2000

\* wait_time = 2 * (2 ** attempt), in milliseconds.
BackoffMs(attempt) == 2000 * (2 ^ attempt)

Min(a, b) == IF a <= b THEN a ELSE b

\* time.sleep(wait_time + 0.5) of fix_json for the exception of kind r at
\* the given attempt, in milliseconds.
FixSleepMs(r, attempt) ==
  Min(IF HasWaitMatch(r) THEN HintMs(r) ELSE BackoffMs(attempt), 15000) + 500

\* As FixParseReturn, but the reply is parsed as it is.
FixParseReturn_NoExtract(text) ==
  LET p == JsonLoads(text)
  IN  IF p.exc # "none" \/ ~ p.isDict
        THEN [ m |-> EmptyMapping, e |-> << "Fix attempts failed: " >> ]
      ELSE [ m |-> p.dict, e |-> NoneError ]

\* Lines 81-90: the pair fix_json returns for a reply with the given text.
FixParseReturn(text) ==
  LET p == safe_json_parse(extract_json_from_text(text))
  IN  IF p.e # NoErrorText
        THEN [ m |-> EmptyMapping, e |-> << "Fix attempts failed: " >> \o p.e ]
      ELSE [ m |-> p.m, e |-> NoneError ]

\* The pair fix_json returns for each text the model can answer, by case.
FixReturns ==
  [ c \in FixCases |->
      [ t \in { r.text : r \in { x \in FixReplies(c) : x.kind = "text" } } |->
          FixParseReturn(t) ] ]

InitFix ==
  /\ GraphIdle
  /\ txt = NoText
  /\ tres = NoTextResult
  /\ gn = NoCall
  /\ \E c \in FixCases :
       fx = [ pc |-> "attempt", case |-> c, attempt |-> 0, calls |-> 0,
              slept |-> << >>, errs |-> << >>, first |-> NoReply,
              last |-> NoReply, ret |-> NoFixReturn ]

\* One iteration of the loop of fix_json, up to its return, its raise or
\* its call of time.sleep.
FixAttempt ==
  /\ fx.pc = "attempt"
  /\ \E r \in FixReplies(fx.case) :
       LET seen == [ fx EXCEPT !.calls = fx.calls + 1, !.last = r,
                               !.first = IF fx.calls = 0 THEN r ELSE fx.first ]
       IN  fx' =
             IF r.kind = "text"
               THEN [ seen EXCEPT !.pc = "returned",
                                  !.ret = FixReturns[fx.case][r.text] ]
             ELSE IF IsRateLimit(r.kind) /\ fx.attempt < max_retries
               THEN IF HasWaitMatch(r.kind) /\ WaitValueRaises(r.kind)
                      THEN [ seen EXCEPT !.pc = "raised" ]
                    ELSE [ seen EXCEPT !.pc = "sleeping",
                             !.errs = Append(fx.errs, r.kind),
                             !.slept = Append(fx.slept, FixSleepMs(r.kind, fx.attempt)) ]
             ELSE [ seen EXCEPT !.pc = "returned",
                      !.ret = [ m |-> EmptyMapping,
                                e |-> << "Error during JSON repair: " >> \o r.text ] ]
  /\ UNCHANGED << txt, tres, gn >>
  /\ UNCHANGED graph_vars

\* time.sleep returns and the loop continues with the next attempt.
FixSleep ==
  /\ fx.pc = "sleeping"
  /\ fx' = [ fx EXCEPT !.pc = "attempt", !.attempt = fx.attempt + 1 ]
  /\ UNCHANGED << txt, tres, gn >>
  /\ UNCHANGED graph_vars

NextFix == FixAttempt \/ FixSleep

SpecFix == InitFix /\ [][NextFix]_vars


\* ------------------------------------------- BaseMobilityAgent.generate
\* The section names of the agents, on each of which generate is followed.
GenSections == Range(AgentSectionNames)

\* The error text of safe_json_parse for a reply that does not parse.
ParseErrorText == << "<parse_error>" >>

\* f"JSON parsing error in {self.section_name}: {parse_error}"
ParseErrorMessage(section) ==
  << "JSON parsing error in ", section, ": " >> \o ParseErrorText

\* f"JSON parsing error in {self.section_name} (fallback): {parse_error}"
FallbackParseErrorMessage(section) ==
  << "JSON parsing error in ", section, " (fallback): " >> \o ParseErrorText

\* f"Error in fallback for {self.section_name}: {str(fallback_error)}"
FallbackErrorMessage(section, text) ==
  << "Error in fallback for ", section, ": " >> \o text

\* As GenerationErrorMessage, but without the text of the exception.
GenerationErrorMessage_NoText(section, text) ==
  << "Error generating ", section, ": " >>

\* f"Error generating {self.section_name}: {error_str}"
GenerationErrorMessage(section, text) ==
  << "Error generating ", section, ": " >> \o text

\* The message that goes with an error of generate; none with NoError.
ErrorMessage(kind, section, text) ==
  CASE kind = "parse_error"          -> ParseErrorMessage(section)
    [] kind = "parse_error_fallback" -> FallbackParseErrorMessage(section)
    [] kind = "fallback_error"       -> FallbackErrorMessage(section, text)
    [] kind = "generation_error"     -> GenerationErrorMessage(section, text)
    [] OTHER                         -> NoneError

\* time.sleep(wait_time + 0.5) of generate, in milliseconds: the suggested
\* wait capped at 10 seconds, plus the buffer.
GenSleepMs(r) == Min(HintMs(r), 10000) + 500

\* As FirstOutcome, but a reply that does not parse is sent to the fallback
\* model.
FirstOutcome_FallbackOnParseError(r) ==
  IF ~ IsException(r)
    THEN IF ParseError(r) THEN "fallback" ELSE "return"
  ELSE IF IsRateLimit(r)
    THEN IF HasWaitMatch(r)
           THEN IF WaitValueRaises(r) THEN "raise" ELSE "sleep"
         ELSE "fallback"
  ELSE "return"

\* What generate does after the first primary request got the reply r:
\* return (lines 87-96 and 165-168), sleep before the retry (lines 107-116),
\* go on to the fallback model (line 132), or raise (line 108).
FirstOutcome(r) ==
  IF ~ IsException(r) THEN "return"
  ELSE IF IsRateLimit(r)
    THEN IF HasWaitMatch(r)
           THEN IF WaitValueRaises(r) THEN "raise" ELSE "sleep"
         ELSE "fallback"
  ELSE "return"

\* As RetryAccepted, but an empty mapping is not accepted.
RetryAccepted_NonEmpty(r) == r = "valid"

\* Lines 119-130: the retry returned a response and `not parse_error`.
RetryAccepted(r) == ~ IsException(r) /\ ~ ParseError(r)

\* The functions a response goes through after a request returns one.  In
\* the list of calls of generate, "time.sleep:delay" is the sleep of the rate
\* limiting at line 70 (settings.ENABLE_RATE_LIMITING) and "time.sleep:wait"
\* the sleep before the retry at line 116.
ParseCalls == << "extract_json_from_text", "safe_json_parse" >>

NoReplies == [ first |-> "none", retry |-> "none", fallback |-> "none" ]

\* generate has not returned yet.
NoGenReturn == [ raised |-> FALSE, result |-> "empty", error |-> "<not returned>" ]

InitGen ==
  /\ GraphIdle
  /\ txt = NoText
  /\ tres = NoTextResult
  /\ fx = NoCall
  /\ \E s \in GenSections, limiting \in BOOLEAN :
       gn = [ pc |-> "first", section |-> s, rate_limiting |-> limiting,
              calls |-> << >>, slept |-> << >>, replies |-> NoReplies,
              ret |-> NoGenReturn, msg |-> NoneError ]

\* The pair generate returns, with the message of its error.
GenReturned(g, result, error, text) ==
  [ g EXCEPT !.pc = "returned", !.ret = GenReturn(result, error),
             !.msg = ErrorMessage(error, g.section, text) ]

\* generate from its start up to the outcome of the first primary request:
\* the delay of the rate limiting, the request, and the handling of the
\* reply up to a return, a raise, the call of time.sleep or the fallback.
GenFirst ==
  /\ gn.pc = "first"
  /\ \E r \in Replies :
       LET sent == [ gn EXCEPT !.replies.first = r,
                        !.calls = (IF gn.rate_limiting THEN << "time.sleep:delay" >>
                                   ELSE << >>)
                                    \o << "llm.invoke" >>
                                    \o (IF IsException(r) THEN << >> ELSE ParseCalls) ]
       IN  gn' =
             CASE FirstOutcome(r) = "return" ->
                    IF IsException(r)
                      THEN GenReturned(sent, "empty", "generation_error", ExcText(r))
                    ELSE IF ParseError(r)
                      THEN GenReturned(sent, "empty", "parse_error", << >>)
                    ELSE GenReturned(sent, ParsedResult(r), NoError, << >>)
               [] FirstOutcome(r) = "raise" ->
                    [ sent EXCEPT !.pc = "raised", !.ret = GenRaise ]
               [] FirstOutcome(r) = "sleep" ->
                    [ sent EXCEPT !.pc = "sleeping",
                                  !.calls = sent.calls \o << "time.sleep:wait" >>,
                                  !.slept = << GenSleepMs(r) >> ]
               [] OTHER -> [ sent EXCEPT !.pc = "fallback" ]
  /\ UNCHANGED << txt, tres, fx >>
  /\ UNCHANGED graph_vars

\* time.sleep(wait_time + 0.5) returns.
GenSleep ==
  /\ gn.pc = "sleeping"
  /\ gn' = [ gn EXCEPT !.pc = "retry" ]
  /\ UNCHANGED << txt, tres, fx >>
  /\ UNCHANGED graph_vars

\* Lines 119-130: the retry with the same model.
GenRetry ==
  /\ gn.pc = "retry"
  /\ \E r \in Replies :
       LET sent == [ gn EXCEPT !.replies.retry = r,
                        !.calls = gn.calls \o << "llm.invoke" >>
                                    \o (IF IsException(r) THEN << >> ELSE ParseCalls) ]
       IN  gn' = IF RetryAccepted(r)
                   THEN GenReturned(sent, ParsedResult(r), NoError, << >>)
                 ELSE [ sent EXCEPT !.pc = "fallback" ]
  /\ UNCHANGED << txt, tres, fx >>
  /\ UNCHANGED graph_vars

\* Lines 135-163: the fallback model is constructed and requested once; the
\* construction or the request may raise.
GenFallback ==
  /\ gn.pc = "fallback"
  /\ \/ gn' = GenReturned([ gn EXCEPT !.calls = gn.calls \o << "ChatGroq" >> ],
                          "empty", "fallback_error", ExcText("exception"))
     \/ \E r \in Replies :
          LET sent == [ gn EXCEPT !.replies.fallback = r,
                           !.calls = gn.calls \o << "ChatGroq", "fallback_llm.invoke" >>
                                       \o (IF IsException(r) THEN << >> ELSE ParseCalls) ]
              out  == GenerateFallback(sent.replies)
          IN  gn' = GenReturned(sent, out.result, out.error, ExcText(r))
  /\ UNCHANGED << txt, tres, fx >>
  /\ UNCHANGED graph_vars

NextGen == GenFirst \/ GenSleep \/ GenRetry \/ GenFallback

SpecGen == InitGen /\ [][NextGen]_vars


\* --------------------------------------------------------------- claims
\* The sections of the input state of the assembly node that are {} or absent.
InputMissing == { n \in SectionNames : DictGet(st, ReadKey(n)) # "full" }

\* The section of the document that the task of agent a is to produce: the
\* agents and the sections of the document correspond by position.
DocSectionOf(a) == SectionOrder[AgentIndex(a)]

RunOver == pc \in { "end", "raised" }

\* The position of a section among the sections of the document.
SectionIndex(n) == CHOOSE i \in 1..Len(SectionOrder) : SectionOrder[i] = n

\* C1: whenever assembly_agent_node returns, complete_measure has each of
\* the 19 expected section names as a key, and the value is the empty
\* mapping for every section that was empty or absent in the input state.
C1_AllKeysPresent ==
  ret.returned =>
    LET body == ret.complete_measure.body
        miss == InputMissing
    IN  /\ Cardinality(SectionNames) = 19
        /\ SectionNames \subseteq DOMAIN body
        /\ \A n \in miss : body[n] = "empty"
        /\ \A n \in SectionNames \ miss : body[n] = "full"

\* assembly_agent_node has returned for an input with an absent section, an
\* empty section and a non-empty section.
C1_Witness ==
  /\ entry = "node"
  /\ ret.returned
  /\ \E n \in SectionNames : ReadKey(n) \notin DOMAIN st
  /\ \E n \in SectionNames : ReadKey(n) \in DOMAIN st /\ st[ReadKey(n)] = "empty"
  /\ \E n \in SectionNames : ReadKey(n) \in DOMAIN st /\ st[ReadKey(n)] = "full"

\* C2: a run of the graph in which every section generator that is called
\* returns a non-empty mapping and no error ends with an assembled document
\* whose _metadata has no incomplete flag set to true and whose file name
\* has no "-partial" fragment.
C2_CompleteRun ==
  ( /\ entry = "invoke"
    /\ RunOver
    /\ \A a \in Agents :
         IF AgentInitRaises(a) THEN task[a].status = "raised"
         ELSE task[a].status = "returned" /\ ~ IsFlaky(task[a]) )
  => /\ ret.returned
     /\ ~ ( "incomplete" \in ret.complete_measure.meta_keys
            /\ ret.complete_measure.incomplete )
     /\ "-partial" \notin Range(ret.output_filename)

\* C3: a run of the graph in which the generators of a set F of agents return
\* an empty mapping and all the others a non-empty one ends with a document
\* that has the 19 section keys and whose missing_sections are exactly the
\* sections of F.
C3_MissingExactlyF ==
  ( /\ entry = "invoke"
    /\ RunOver
    /\ \A a \in Agents :
         IF AgentInitRaises(a) THEN task[a].status = "raised"
         ELSE task[a].status = "returned" )
  => /\ ret.returned
     /\ SectionNames \subseteq DOMAIN ret.complete_measure.body
     /\ Range(ret.complete_measure.missing_sections)
          = { DocSectionOf(a) : a \in { x \in Agents : IsFlaky(task[x]) } }

\* C4: when assembly_agent_node returns for an input with at least one empty
\* or absent section, _metadata.incomplete is true, missing_sections lists
\* each such section once and no other, in the order of the sections, and
\* completion_percentage is 100 * (19 - missing) / 19 rounded to the nearest
\* tenth (84.2 for 3 missing, 0.0 for 19 missing).
C4_PartialMetadata ==
  ret.returned =>
    LET doc  == ret.complete_measure
        miss == InputMissing
        m    == Cardinality(miss)
        off  == 19 * doc.completion_percentage - 1000 * (19 - m)
    IN  miss # { } =>
        /\ { "incomplete", "missing_sections", "completion_percentage" }
             \subseteq doc.meta_keys
        /\ doc.incomplete
        /\ Range(doc.missing_sections) = miss
        /\ Len(doc.missing_sections) = m
        /\ \A i \in 1..(Len(doc.missing_sections) - 1) :
             SectionIndex(doc.missing_sections[i])
               < SectionIndex(doc.missing_sections[i + 1])
        /\ 2 * off <= 19 /\ 2 * off >= -19
        /\ m = 3 => doc.completion_percentage = 842
        /\ m = 19 => doc.completion_percentage = 0

\* assembly_agent_node has returned for an input with exactly 3 missing
\* sections, one of them absent.
C4_Witness ==
  /\ entry = "node"
  /\ ret.returned
  /\ Cardinality(InputMissing) = 3
  /\ \E n \in InputMissing : ReadKey(n) \notin DOMAIN st
  /\ ret.complete_measure.completion_percentage = 842

\* C5: in every run of the graph the assembly node is called exactly once,
\* and not before each of the 19 section tasks has returned.
C5_JoinBarrier ==
  /\ asm_runs > 0 /\ entry = "invoke" =>
       \A a \in Agents : task[a].status = "returned"
  /\ entry = "invoke" /\ RunOver => asm_runs = 1

\* C6: no section node function propagates an exception, whatever the model
\* backend and the image service do.
C6_NoNodeRaises == \A a \in Agents : task[a].status # "raised"

\* C7: at the end of a run of the graph the errors of the state hold exactly
\* one entry for each section task that returned an error, and none for a
\* task that returned no error.
C7_ErrorsCollected ==
  entry = "invoke" /\ RunOver =>
    \A a \in Agents :
      Cardinality({ i \in 1..Len(errors) : errors[i].section = SectionNameOf(a) })
        = Len(task[a].update.errors)

\* C8: when a step of the persistence phase fails, assembly_agent_node
\* returns the document with its 19 section keys, an empty output_path and
\* exactly one save error; when no step fails the output_path is not empty.
C8_SaveFailureReturned ==
  /\ asm_runs > 0 /\ fs_outcome # "ok" =>
       /\ ret.returned
       /\ SectionNames \subseteq DOMAIN ret.complete_measure.body
       /\ ret.output_path = << >>
       /\ Len(ret.errors) = 1
       /\ ret.errors[1].kind = "save"
  /\ asm_runs > 0 /\ fs_outcome = "ok" => ret.returned /\ ret.output_path # << >>

\* C9: _metadata.is_valid is true exactly when each of the 19 section keys
\* of the document exists and is non-empty; when it is false,
\* validation_errors names the missing or empty sections.
C9_IsValidIffComplete ==
  ret.returned =>
    LET doc == ret.complete_measure
        bad == { n \in SectionNames : n \notin DOMAIN doc.body \/ doc.body[n] # "full" }
    IN  /\ "is_valid" \in doc.meta_keys
        /\ doc.is_valid <=> bad = { }
        /\ ~ doc.is_valid =>
             /\ "validation_errors" \in doc.meta_keys
             /\ { doc.validation_errors[i].section :
                    i \in 1..Len(doc.validation_errors) } = bad

\* C10: the output file name is the measure name with "A" lowercased and
\* every " " and "/" replaced by "-", then "-mobility-measure", then
\* "-partial" exactly when a section is missing, then ".json"; the
\* output_path of a successful save is that name under research_output.
C10_Filename ==
  ( ret.returned /\ measure_name # NoName ) =>
    LET f == ret.output_filename
        n == Len(measure_name)
    IN  /\ Len(f) = n + (IF InputMissing # { } THEN 3 ELSE 2)
        /\ \A i \in 1..n :
             f[i] = CASE measure_name[i] \in { " ", "/" } -> "-"
                      [] measure_name[i] = "A" -> "a"
                      [] OTHER -> measure_name[i]
        /\ f[n + 1] = "-mobility-measure"
        /\ InputMissing # { } => f[n + 2] = "-partial"
        /\ f[Len(f)] = ".json"
        /\ fs_outcome = "ok" => ret.output_path = << "research_output", "/" >> \o f

\* assembly_agent_node has saved a partial document for the measure name "/".
C10_Witness ==
  /\ entry = "node"
  /\ ret.returned
  /\ fs_outcome = "ok"
  /\ measure_name = << "/" >>
  /\ InputMissing # { }

\* r is t without its leading and trailing whitespace and otherwise unchanged.
IsTrimOf(r, t) ==
  \E i \in 1..(Len(t) + 1), j \in 0..Len(t) :
    /\ r = SubSeq(t, i, j)
    /\ \A k \in 1..(i - 1) : t[k] = " "
    /\ \A k \in (j + 1)..Len(t) : t[k] = " "
    /\ r # << >> => r[1] # " " /\ r[Len(r)] # " "

HasBrace(t) == \E i \in 1..Len(t) : t[i] \in { "{", "}" }

\* The positions of t at which a fence followed by the tag json stands.
JsonFencePositions(t) == { i \in 1..(Len(t) - 1) : t[i] = Fence /\ t[i + 1] = "json" }

FencePositions(t) == { i \in 1..Len(t) : t[i] = Fence }

Least(S) == CHOOSE i \in S : \A j \in S : i <= j

\* The opening fence of t (the first fence with the tag json, or the first
\* fence when no fence has the tag) is followed by a later fence.
HasClosedFence(t) ==
  IF JsonFencePositions(t) # { }
    THEN \E j \in FencePositions(t) : j > Least(JsonFencePositions(t)) + 1
  ELSE IF FencePositions(t) # { }
    THEN \E j \in FencePositions(t) : j > Least(FencePositions(t))
  ELSE FALSE

\* The text is a valid JSON document whose top level is an object.
IsJsonObject(t) == JsonLoads(t).exc = "none" /\ JsonLoads(t).isDict

\* C11: safe_json_parse of utils.json_utils never raises and returns either
\* the top-level mapping of the input with an empty error, or the empty
\* mapping with a non-empty error; an input that is not valid JSON or whose
\* top level is not a mapping is in the second case.
C11_SafeParseTotal ==
  tres.stage \in { "direct", "done" } =>
    LET r == tres.direct
        d == JsonLoads(txt.text)
    IN  /\ ~ r.raised
        /\ \/ r.e = NoErrorText /\ IsJsonObject(txt.text) /\ r.m = d.dict
           \/ r.m = EmptyMapping /\ r.e # NoErrorText
        /\ ~ IsJsonObject(txt.text) => r.m = EmptyMapping /\ r.e # NoErrorText

\* C13 as stated: for a text without "{" and "}", extract_json_from_text
\* returns the text without its leading and trailing whitespace.
C13_NoBraceIdentity ==
  ( tres.stage # "input" /\ ~ HasBrace(txt.text) )
    => IsTrimOf(tres.extracted, txt.text)

\* C13 amended: for a text without "{" and "}" whose opening fence, if it has
\* one, is not followed by a later fence, extract_json_from_text returns the
\* text without its leading and trailing whitespace and otherwise unchanged.
C13_NoBraceNoFencePair ==
  ( tres.stage # "input" /\ ~ HasBrace(txt.text) /\ ~ HasClosedFence(txt.text) )
    => IsTrimOf(tres.extracted, txt.text)

\* extract_json_from_text has returned for a text without braces that has
\* whitespace at both ends and an opening fence that is never closed.
C13_Witness ==
  /\ tres.stage = "extracted"
  /\ ~ HasBrace(txt.text)
  /\ Len(txt.text) = 3
  /\ txt.text[1] = " " /\ txt.text[3] = " "
  /\ txt.text[2] = Fence
  /\ tres.extracted = << Fence >>

\* C14: for a valid JSON object in a fenced block with prose before and
\* after it, extraction followed by safe_json_parse returns the mapping of
\* that object and an empty error.
C14_FencedRoundTrip ==
  ( /\ tres.stage \in { "chained", "direct", "done" }
    /\ txt.shape = "fenced"
    /\ IsJsonObject(txt.body) )
  => /\ ~ tres.chained.raised
     /\ tres.chained.e = NoErrorText
     /\ tres.chained.m = JsonLoads(txt.body).dict

\* C15: for a valid JSON object string s, safe_json_parse(s) and
\* safe_json_parse of s in a fenced block, with or without the tag json and
\* with whitespace added, return the same mapping.
C15_FenceIdempotent ==
  ( /\ tres.stage = "done"
    /\ txt.shape = "fenced"
    /\ txt.pre = << >> /\ txt.post = << >>
    /\ IsJsonObject(txt.body) )
  => tres.direct.m = tres.clean.m

\* C12: whatever the model does on each attempt, fix_json issues at most
\* 4 model requests, never raises, and what it returns is a mapping with
\* the error None or the empty mapping with an error text.
C12_FixNeverRaises ==
  /\ fx.pc # "raised"
  /\ fx.calls <= 4
  /\ fx.pc = "returned" =>
       \/ fx.ret.e = NoneError
       \/ fx.ret.m = EmptyMapping /\ fx.ret.e # << >>

\* The mapping the tests expect for a case: key1 -> "value1" and, where the
\* broken text has it, key2 -> "value2".
ExpectedKeys(c) ==
  IF c = "trailing_comma" THEN { << "key1" >> } ELSE { << "key1" >>, << "key2" >> }

ExpectedValue(k) ==
  IF k = << "key1" >> THEN << Quote, "value1", Quote >> ELSE << Quote, "value2", Quote >>

\* fix_json has returned, after one model request, the expected mapping and
\* the error None.
FixedInOneRequest ==
  /\ fx.pc = "returned"
  /\ fx.calls = 1
  /\ fx.ret.e = NoneError
  /\ DOMAIN fx.ret.m = ExpectedKeys(fx.case)
  /\ \A k \in ExpectedKeys(fx.case) : fx.ret.m[k] = ExpectedValue(k)

\* The text t is the object obj, bare or between one pair of fences, and
\* around it only whitespace and prose: no brace of t lies outside obj, and
\* t has either no fence or one fence before obj and one after it.
IsWrappedObject(t, obj) ==
  \E i \in 1..Len(t) :
    /\ OccursAt(t, obj, i)
    /\ \A j \in 1..Len(t) :
         t[j] \in { "{", "}" } => j >= i /\ j < i + Len(obj)
    /\ LET before == { j \in FencePositions(t) : j < i }
           after  == { j \in FencePositions(t) : j >= i + Len(obj) }
       IN  /\ FencePositions(t) = before \cup after
           /\ \/ before = { } /\ after = { }
              \/ Cardinality(before) = 1 /\ Cardinality(after) = 1

\* C16 as stated: when the reply to the repair prompt contains the
\* corrected JSON object, fix_json returns the mapping that binds every
\* original key to its original value, with the error None, after a single
\* model request.
C16_ReplyContainsFix ==
  ( /\ fx.calls >= 1
    /\ fx.first.kind = "text"
    /\ Contains(fx.first.text, CorrectedJson(fx.case)) )
  => FixedInOneRequest

\* C16 amended: when the reply to the repair prompt is the corrected JSON
\* object, bare or inside one fenced block, with no brace and no other fence
\* marker in the text around it, fix_json returns the mapping that binds
\* every original key to its original value, with the error None, after a
\* single model request.
C16_ReplyIsWrappedFix ==
  ( /\ fx.calls >= 1
    /\ fx.first.kind = "text"
    /\ IsWrappedObject(fx.first.text, CorrectedJson(fx.case)) )
  => FixedInOneRequest

\* fix_json has repaired the text with the missing comma, which json.loads
\* rejects, from a reply that holds the corrected object in a fenced block
\* with the tag json between two pieces of prose.
C16_Witness ==
  /\ fx.pc = "returned"
  /\ fx.case = "missing_comma"
  /\ JsonLoads(BrokenJson(fx.case)).exc = "JSONDecodeError"
  /\ fx.first.text =
       Compose(<< "k", " " >>, << Fence, "json" >>, << " " >>,
               CorrectedJson(fx.case), << " ", "k" >>)
  /\ fx.ret.m[<< "key2" >>] = << Quote, "value2", Quote >>
  /\ fx.calls = 1

\* The number of calls of f in the list of calls of generate.
CallCount(f) == Cardinality({ i \in 1..Len(gn.calls) : gn.calls[i] = f })

CallPositions(f) == { i \in 1..Len(gn.calls) : gn.calls[i] = f }

GenOver == gn.pc \in { "returned", "raised" }

\* C17: when the first primary request fails with a rate-limit signal,
\* generate sleeps the wait derived from the error text and then sends the
\* primary request once more before any request to the fallback model; a
\* retry that yields a parseable mapping is returned and the fallback model
\* is not contacted.
C17_RetryAfterRateLimit ==
  ( GenOver /\ IsRateLimit(gn.replies.first) ) =>
    /\ gn.pc = "returned"
    /\ Len(gn.slept) = 1
    /\ CallCount("time.sleep:wait") = 1
    /\ CallCount("llm.invoke") = 2
    /\ \A i \in CallPositions("llm.invoke"), j \in CallPositions("fallback_llm.invoke") :
         i < j
    /\ ( ~ IsException(gn.replies.retry) /\ ~ ParseError(gn.replies.retry) ) =>
         /\ gn.ret = GenReturn(ParsedResult(gn.replies.retry), NoError)
         /\ CallCount("fallback_llm.invoke") = 0

\* C18: the fallback model is requested only after a rate-limit failure of
\* the first primary request and, when a retry was made, after the retry
\* raised or returned text that does not parse; it is requested at most
\* once, no model request follows it, and generate returns its outcome: the
\* parsed mapping, the parse error, or the error of the exception.
C18_FallbackOnce ==
  /\ gn.pc = "fallback" => IsRateLimit(gn.replies.first)
  /\ CallCount("fallback_llm.invoke") <= 1
  /\ CallCount("fallback_llm.invoke") = 1 =>
       /\ IsRateLimit(gn.replies.first)
       /\ CallCount("llm.invoke") \in { 1, 2 }
       /\ CallCount("llm.invoke") = 2 =>
            IsException(gn.replies.retry) \/ ParseError(gn.replies.retry)
       /\ \A i \in CallPositions("llm.invoke"), j \in CallPositions("fallback_llm.invoke") :
            i < j
       /\ gn.pc = "returned"
       /\ IF IsException(gn.replies.fallback)
            THEN /\ gn.ret = GenReturn("empty", "fallback_error")
                 /\ gn.msg = << "Error in fallback for ", gn.section, ": " >>
                               \o ExcText(gn.replies.fallback)
          ELSE IF ParseError(gn.replies.fallback)
            THEN /\ gn.ret = GenReturn("empty", "parse_error_fallback")
                 /\ gn.msg = << "JSON parsing error in ", gn.section, " (fallback): " >>
                               \o ParseErrorText
          ELSE /\ gn.ret = GenReturn(ParsedResult(gn.replies.fallback), NoError)
               /\ gn.msg = NoneError

\* generate has returned the mapping of the fallback model after a retry
\* whose text did not parse.
C18_Witness ==
  /\ gn.pc = "returned"
  /\ gn.replies.first = "rate_limit_hint"
  /\ gn.replies.retry = "unparseable"
  /\ gn.replies.fallback = "valid"
  /\ CallCount("llm.invoke") = 2
  /\ CallCount("fallback_llm.invoke") = 1
  /\ gn.ret = GenReturn("full", NoError)

\* C19: when the text of the first response does not parse, generate
\* returns the empty mapping and the parse error after that one request,
\* without a retry and without the fallback model; and generate never calls
\* fix_json.
C19_ParseErrorReturned ==
  /\ "fix_json" \notin Range(gn.calls)
  /\ gn.replies.first = "unparseable" =>
       /\ gn.pc = "returned"
       /\ gn.ret = GenReturn("empty", "parse_error")
       /\ gn.msg = << "JSON parsing error in ", gn.section, ": " >> \o ParseErrorText
       /\ CallCount("llm.invoke") = 1
       /\ CallCount("fallback_llm.invoke") = 0
       /\ CallCount("ChatGroq") = 0
       /\ CallCount("time.sleep:wait") = 0

\* generate has returned for a first response whose text does not parse.
C19_Witness ==
  /\ gn.pc = "returned"
  /\ gn.replies.first = "unparseable"
  /\ gn.ret.error = "parse_error"
  /\ "safe_json_parse" \in Range(gn.calls)

\* C20 as stated: when the primary request raises an exception without a
\* rate-limit signal, generate returns the empty mapping with the text of
\* the exception as the error string, after that one request.
C20_VerbatimError ==
  gn.replies.first = "exception" =>
    /\ gn.pc = "returned"
    /\ gn.ret.result = "empty"
    /\ gn.msg = ExcText(gn.replies.first)
    /\ CallCount("llm.invoke") = 1
    /\ CallCount("fallback_llm.invoke") = 0
    /\ CallCount("time.sleep:wait") = 0

\* C20 amended: when the primary request raises an exception without a
\* rate-limit signal, generate returns the empty mapping with the error
\* string "Error generating <section_name>: " followed by the text of the
\* exception, verbatim, after that one request: no retry and no fallback.
C20_PrefixedError ==
  gn.replies.first = "exception" =>
    /\ gn.pc = "returned"
    /\ gn.ret.result = "empty"
    /\ gn.ret.error # NoError
    /\ gn.msg = << "Error generating ", gn.section, ": " >> \o ExcText(gn.replies.first)
    /\ CallCount("llm.invoke") = 1
    /\ CallCount("fallback_llm.invoke") = 0
    /\ CallCount("ChatGroq") = 0
    /\ CallCount("time.sleep:wait") = 0

\* generate of the roles agent has returned after its request raised an
\* exception without a rate-limit signal.
C20_Witness ==
  /\ gn.pc = "returned"
  /\ gn.section = "roles"
  /\ gn.replies.first = "exception"
  /\ ~ IsRateLimit(gn.replies.first)
  /\ gn.calls[Len(gn.calls)] = "llm.invoke"

\* C21: whenever generate sleeps before its retry, it sleeps what fix_json
\* computes from the same error text on its first retry: the wait the text
\* suggests, in seconds, capped at 15 seconds, plus the buffer of 0.5 seconds.
C21_SameSleepAsFixer ==
  Len(gn.slept) = 1 =>
    /\ gn.slept[1] = FixSleepMs(gn.replies.first, 0)
    /\ gn.slept[1] = Min(HintMs(gn.replies.first), 15000) + 500

\* C22: every call of generate ends by returning a pair and never by raising;
\* it sends at most two requests to the primary model and at most one to the
\* fallback model, and exactly one request in all when the first primary
\* request returned a response.
C22_GenerateReturns ==
  /\ gn.pc # "raised"
  /\ CallCount("llm.invoke") <= 2
  /\ CallCount("fallback_llm.invoke") <= 1
  /\ ( GenOver /\ ~ IsException(gn.replies.first) ) =>
       /\ gn.pc = "returned"
       /\ CallCount("llm.invoke") + CallCount("fallback_llm.invoke") = 1

\* The sleep, in milliseconds, the text of an exception of kind e asks for
\* before retry k: min(w, 15) + 0.5 seconds.
ExpectedSleepMs(e, k) ==
  CASE e = "rate_limit_hint"      -> 1700
    [] e = "rate_limit_hint_ms"   -> 1000
    [] e = "rate_limit_hint_long" -> 12500
    [] e = "rate_limit_hint_huge" -> 15500
    [] OTHER                      -> << 2500, 4500, 8500 >>[k + 1]

\* C23: before retry k (k = 0, 1, 2) fix_json sleeps min(w, 15) + 0.5
\* seconds, w being the wait the error text suggests when it has one and
\* 2 * 2^k seconds otherwise; "try again in 1.2s" gives 1.7 seconds.
C23_SleepBeforeRetry ==
  /\ Len(fx.slept) = Len(fx.errs)
  /\ Len(fx.slept) <= 3
  /\ \A i \in 1..Len(fx.slept) :
       fx.slept[i] = ExpectedSleepMs(fx.errs[i], i - 1)

C23_Witness ==
  /\ fx.pc = "attempt"
  /\ fx.errs = << "rate_limit_no_hint", "rate_limit_hint", "rate_limit_no_hint" >>
  /\ fx.slept = << 2500, 1700, 8500 >>

\* The text of an exception holds "429" or "rate_limit".
CarriesRateLimitSignal(text) == \E i \in 1..Len(text) : text[i] = "429 "

\* The texts the model can answer in some case.
FixTexts == UNION { DOMAIN FixReturns[c] : c \in FixCases }

\* The texts from which a JSON object can be read, with the object.
ParseableTexts ==
  { t \in FixTexts : safe_json_parse(extract_json_from_text(t)).e = NoErrorText }

ParsedMapping == [ t \in ParseableTexts |-> safe_json_parse(t).m ]

\* The reply is text from which a JSON object can be read.
ParseableReply(r) == r.kind = "text" /\ r.text \in ParseableTexts

\* fix_json has returned an empty mapping with a non-empty error.
ReturnedFailure ==
  /\ fx.pc = "returned"
  /\ fx.ret.m = EmptyMapping
  /\ fx.ret.e \notin { NoneError, << >> }

\* C24: fix_json sends another request only after an exception with a
\* rate-limit signal and only while fewer than 3 retries were used; an
\* exception without the signal, a reply that does not parse, and a
\* rate-limit exception at the 4th attempt each end the call at once with an
\* empty mapping and a non-empty error; a reply that parses ends it with
\* (mapping, None).
C24_RetryOnlyOnRateLimit ==
  /\ fx.calls <= 4
  /\ fx.calls <= Len(fx.errs) + 1
  /\ \A i \in 1..Len(fx.errs) : CarriesRateLimitSignal(ExcText(fx.errs[i]))
  /\ fx.pc = "sleeping" =>
       CarriesRateLimitSignal(fx.last.text) /\ fx.calls <= 3
  /\ ( fx.calls > 0 /\ fx.last.kind # "text"
         /\ ~ CarriesRateLimitSignal(fx.last.text) ) => ReturnedFailure
  /\ ( fx.calls > 0 /\ fx.last.kind = "text" /\ ~ ParseableReply(fx.last) ) =>
       ReturnedFailure
  /\ ( fx.calls = 4 /\ fx.last.kind # "text" ) => ReturnedFailure
  /\ ( fx.calls > 0 /\ ParseableReply(fx.last) ) =>
       /\ fx.pc = "returned"
       /\ fx.ret.e = NoneError
       /\ fx.ret.m = ParsedMapping[fx.last.text]

C24_Witness ==
  /\ fx.calls = 4
  /\ fx.last.kind = "rate_limit_hint"
  /\ ReturnedFailure

\* C25: when the text has more than one fenced block, the extracted text is
\* taken from the first block, whether "<fence>" or "<fence>json" opens it,
\* and nothing of a later block is used.
C25_FirstBlockOnly ==
  ( tres.stage # "input" /\ txt.shape = "blocks" ) =>
    tres.extracted = Strip(BraceSlice(Strip(txt.body)))

\* The text that is parsed is the same after two extractions as after one.
SameAfterSecondExtraction ==
  /\ extract_json_from_text(tres.extracted) = tres.extracted
  /\ tres.chained = tres.direct

\* C28: extracting twice gives what extracting once gives, so that
\* safe_json_parse on the extracted text returns what it returns on the text
\* itself.
C28_ExtractIdempotent ==
  tres.stage \in { "direct", "done", "compared" } => SameAfterSecondExtraction

\* C30: safe_json_parse of utils.json_utils and safe_json_parse of
\* schemas.validators return a mapping with an empty error on the same
\* texts, and an empty mapping with an error on the same texts.
C30_ParsersAgree ==
  tres.stage = "compared" =>
    /\ tres.other.raised = tres.direct.raised
    /\ ( tres.other.e = NoErrorText ) <=> ( tres.direct.e = NoErrorText )
    /\ tres.other.isDict
    /\ tres.other.m = tres.direct.m

\* The state of the sections that the results of the tasks determine, with
\* no regard to the order in which the tasks ran.
OutcomeState ==
  [ k \in DOMAIN InitialState |->
      IF \E a \in Agents : /\ task[a].status = "returned"
                           /\ task[a].update.key = k
                           /\ task[a].update.value = "full"
        THEN "full" ELSE "empty" ]

AgentSectionOf(n) == AgentSectionNames[SectionIndex(n)]

\* C27: every section listed in _metadata.missing_sections has an entry in
\* the errors of the run; a run that ends with no error has no missing
\* section.
C27_MissingHasError ==
  ret.returned =>
    LET missing == ret.complete_measure.missing_sections
    IN  /\ \A i \in 1..Len(missing) :
             \E j \in 1..Len(errors) : errors[j].section = AgentSectionOf(missing[i])
        /\ errors = << >> => Len(missing) = 0

\* The keys of the state that belong to the input and to the assembly node.
ProtectedKeys == { "measure_name", "context", "complete_measure", "output_path" }

\* No two of the tasks that have returned write the same section key, and
\* none writes "errors" as a section or a key that is not a section's.
KeysApart(t) ==
  \A a \in Agents :
    t[a].status = "returned" =>
      /\ t[a].update.key \notin ProtectedKeys \cup { "errors", "none" }
      /\ \A b \in Agents \ { a } :
           t[b].status = "returned" => t[b].update.key # t[a].update.key

\* C29: the update of a section task holds its own section key and errors
\* only: no two tasks write the same section key, and while the tasks run
\* measure_name, the sections of the state, the result of the assembly and
\* the update of any task that has returned stay as they are.
C29_TaskFrame ==
  [][ /\ KeysApart(task')
      /\ pc = "superstep" /\ pc' = "superstep" =>
           /\ measure_name' = measure_name
           /\ st' = st
           /\ ret' = ret
           /\ errors' = errors
           /\ \A a \in Agents :
                task[a].status = "returned" => task'[a] = task[a] ]_vars

C29_Witness ==
  /\ pc = "superstep"
  /\ task["context_agent"].status = "returned"
  /\ task["context_agent"].update.key = "context_data"
  /\ task["overview_agent"].status = "returned"
  /\ task["overview_agent"].update.errors # << >>
  /\ task["roles_agent"].status = "returned"
  /\ task["meta_agent"].status = "running"

====
